---- MODULE Spec2Model ----
(***************************************************************************)
(* ProcessMonitor of src/scr/main.py: a polling monitor that keeps a      *)
(* pid -> name cache (pid_info) and a connection-key -> record cache      *)
(* (conn_info), diffs each against a fresh psutil enumeration once per    *)
(* interval, and writes "started"/"ended" lines to the log and stdout.    *)
(*                                                                         *)
(* psutil is the environment: every call of psutil.pids(),                *)
(* psutil.net_connections() and psutil.Process(pid) returns a value the   *)
(* model draws from a bounded set, or raises.                             *)
(***************************************************************************)
EXTENDS Integers, Sequences, FiniteSets, TLC

VARIABLES
    pid_info,       \* self.pid_info: pid -> name
    conn_info,      \* self.conn_info: _conn_key tuple -> record
    running,        \* self.running
    pc,             \* the next piece of code the single thread runs
    log,            \* the lines written by the most recent step, in order
    pids_result,    \* what the most recent psutil.pids() call gave
    conns_result,   \* the keys of what the most recent psutil.net_connections() call gave
    fetched,        \* what psutil.Process(pid) gave, per pid, in the most recent step
    captured,       \* per tracked identity, the detail read from the OS when it was inserted
    pre,            \* pid_info, conn_info, captured, reported and the two results before the most recent step
    sigint,         \* a SIGINT has been delivered and its handler has not run yet
    cycle,          \* the psutil.pids() and psutil.net_connections() calls of the current loop iteration
    reported        \* the identities seeded, or reported started, and not reported ended
                    \* since; those of the connections are kept when reported.audit is set

vars == <<pid_info, conn_info, running, pc, log, pids_result, conns_result,
          fetched, captured, pre, sigint, cycle, reported>>

(***************************************************************************)
(* Bounds of the environment.                                              *)
(***************************************************************************)
\* the pids the OS can list are 1..NumPids
NumPids == 2
\* the connections the OS can list are the first NumConns entries of ConnTable
NumConns == 4

Pids == 1..NumPids
\* process names psutil can return; "" is a process whose name reads empty
Names == {"", "alpha", "beta"}

\* Python's None, and the text an f-string or str() makes of it
None == <<>>
NoneText == <<"None">>

\* an empty dict
EmptyDict == [k \in {} |-> k]

\* d[k] = v
DictSet(d, k, v) == [x \in (DOMAIN d) \cup {k} |-> IF x = k THEN v ELSE d[x]]

\* d.pop(k, None)
DictPop(d, k) == [x \in (DOMAIN d) \ {k} |-> d[x]]

\* the orders in which a for loop can visit a set
Orders(S) ==
    {s \in [1..Cardinality(S) -> S] :
        \A i, j \in 1..Cardinality(S) : i # j => s[i] # s[j]}

(***************************************************************************)
(* What psutil returns.                                                    *)
(***************************************************************************)
\* psutil.pids(): a list of pids, or an exception
PidsResults ==
    [ok : {TRUE}, value : SUBSET Pids] \cup [ok : {FALSE}, value : {{}}]

\* psutil.Process(pid), .name(), .create_time(): the name and creation time, or
\* NoSuchProcess (the process went away), or another exception (AccessDenied)
Details ==
    [kind : {"ok"}, name : Names, create_time : {0}]
        \cup [kind : {"NoSuchProcess", "Exception"}, name : {""}, create_time : {0}]

\* one sconn of psutil.net_connections(); laddr and raddr are (ip, port) or ()
Conn(fd, type, laddr, raddr, status, pid) ==
    [fd |-> fd, family |-> "AF_INET", type |-> type, laddr |-> laddr,
     raddr |-> raddr, status |-> status, pid |-> pid]

\* the connections the OS can hold: the second is the first after a status
\* change, the fourth is a second socket with the fields of the first
ConnTable ==
    << Conn(3, "SOCK_STREAM", <<"10.0.0.1", 5000>>, <<"10.0.0.2", 80>>, "ESTABLISHED", <<1>>),
       Conn(3, "SOCK_STREAM", <<"10.0.0.1", 5000>>, <<"10.0.0.2", 80>>, "CLOSE_WAIT", <<1>>),
       Conn(4, "SOCK_STREAM", <<"0.0.0.0", 22>>, <<>>, "LISTEN", None),
       Conn(5, "SOCK_STREAM", <<"10.0.0.1", 5000>>, <<"10.0.0.2", 80>>, "ESTABLISHED", <<1>>),
       Conn(6, "SOCK_DGRAM", <<"0.0.0.0", 53>>, <<>>, "NONE", <<2>>),
       Conn(7, "SOCK_STREAM", <<"10.0.0.1", 5001>>, <<"10.0.0.3", 443>>, "ESTABLISHED", <<2>>) >>

Conns == {ConnTable[i] : i \in 1..NumConns}

\* psutil.net_connections(): a list of sconn, or an exception
ConnsResults ==
    [ok : {TRUE}, value : SUBSET Conns] \cup [ok : {FALSE}, value : {{}}]

(***************************************************************************)
(* The lines of the log.  A lifecycle line stands for the pair            *)
(* logging.info(msg); print(msg).  key is the identity the line is about  *)
(* and present tells whether that identity was in the watcher's dict when  *)
(* the line was written.                                                   *)
(***************************************************************************)
Line(kind, key, msg, present) ==
    [kind |-> kind, key |-> key, msg |-> msg, present |-> present]

\* datetime.fromtimestamp(t).strftime('%Y-%m-%d %H:%M:%S')
strftime(t) == <<"%Y-%m-%d %H:%M:%S", t>>

\* str(x) of an int or None
str(x) == IF x = None THEN NoneText ELSE <<"int", x[1]>>

\* how an f-string prints an Optional[str]
Format(x) == IF x = None THEN NoneText ELSE x

\* logging.basicConfig(level=logging.INFO): a record below INFO is not written
logging(level, line) ==
    IF level \in {"INFO", "WARNING", "ERROR", "CRITICAL"} THEN <<line>> ELSE <<>>

(***************************************************************************)
(* The process watcher.  A watcher state st is [pid_info, log].            *)
(***************************************************************************)
\* _log_start that writes the line and forgets to store the name
_log_start_no_store(st, pid, d) ==
    IF d.kind = "ok"
    THEN [st EXCEPT !.log = Append(@, Line("Process Started", <<pid>>,
                                           <<pid, d.name, strftime(d.create_time)>>,
                                           pid \in DOMAIN st.pid_info))]
    ELSE st

\* _log_start: on a successful fetch, write the line, then store the name
_log_start(st, pid, d) ==
    IF d.kind = "ok"
    THEN [pid_info |-> DictSet(st.pid_info, pid, d.name),
          log |-> Append(st.log,
                         Line("Process Started", <<pid>>,
                              <<pid, d.name, strftime(d.create_time)>>,
                              pid \in DOMAIN st.pid_info))]
    ELSE IF d.kind = "NoSuchProcess"
    THEN st
    ELSE [st EXCEPT !.log = @ \o logging("ERROR",
                                Line("error", <<pid>>, <<"Error logging start for PID">>, FALSE))]

\* _log_end that pops the pid before it writes the line
_log_end_pop_first(st, pid) ==
    [pid_info |-> DictPop(st.pid_info, pid),
     log |-> Append(st.log, Line("Process Ended", <<pid>>, <<pid>>,
                                 pid \in DOMAIN DictPop(st.pid_info, pid)))]

\* _log_end: write the line with the cached name when it is truthy, then pop
_log_end(st, pid) ==
    LET msg == IF pid \in DOMAIN st.pid_info /\ st.pid_info[pid] # ""
               THEN <<pid, st.pid_info[pid]>>
               ELSE <<pid>>
    IN  [pid_info |-> DictPop(st.pid_info, pid),
         log |-> Append(st.log,
                        Line("Process Ended", <<pid>>, msg,
                             pid \in DOMAIN st.pid_info))]

\* a loop over created that a failed fetch ends
RECURSIVE log_starts_abort(_, _, _)
log_starts_abort(st, order, fetch) ==
    IF order = <<>> THEN st
    ELSE IF fetch[Head(order)].kind # "ok"
    THEN _log_start(st, Head(order), fetch[Head(order)])
    ELSE log_starts_abort(_log_start(st, Head(order), fetch[Head(order)]), Tail(order), fetch)

\* for pid in created: self._log_start(pid)
RECURSIVE log_starts(_, _, _)
log_starts(st, order, fetch) ==
    IF order = <<>> THEN st
    ELSE log_starts(_log_start(st, Head(order), fetch[Head(order)]), Tail(order), fetch)

\* for pid in ended: self._log_end(pid)
RECURSIVE log_ends(_, _)
log_ends(st, order) ==
    IF order = <<>> THEN st
    ELSE log_ends(_log_end(st, Head(order)), Tail(order))

\* current = set(psutil.pids()), or set() with an error line when the call raises
current(result) == IF result.ok THEN result.value ELSE {}

\* a failed psutil.pids() that is reported twice
list_pids_log_twice(result) ==
    IF result.ok THEN <<>>
    ELSE logging("ERROR", Line("error", None, <<"Failed to list PIDs">>, FALSE))
         \o logging("ERROR", Line("error", None, <<"Failed to list PIDs">>, FALSE))

\* logging.error(f"Failed to list PIDs: {e}") when the call raised
list_pids_log(result) ==
    IF result.ok THEN <<>>
    ELSE logging("ERROR", Line("error", None, <<"Failed to list PIDs">>, FALSE))

\* created without the subtraction of previous
created_all(cur, previous) == cur

\* created = current - previous
created(cur, previous) == cur \ previous

\* ended that never finds a pid gone
ended_none(previous, cur) == {}

\* ended that takes every pid the listing lacks, tracked or not
ended_untracked(previous, cur) == Pids \ cur

\* ended = previous - current
ended(previous, cur) == previous \ cur

\* seeding that goes through _log_start
seed_pid_logged(st, pid, d) == _log_start(st, pid, d)

\* the seeding loop of __init__: store the name of each pid that is still
\* there, skip a pid that is gone, and start empty on any other exception
seed_pid(st, pid, d) ==
    IF d.kind = "ok" THEN [st EXCEPT !.pid_info = DictSet(@, pid, d.name)] ELSE st

RECURSIVE seed_pids(_, _, _)
seed_pids(st, order, fetch) ==
    IF order = <<>> THEN st
    ELSE IF fetch[Head(order)].kind = "Exception"
    THEN [st EXCEPT !.pid_info = EmptyDict]
    ELSE seed_pids(seed_pid(st, Head(order), fetch[Head(order)]), Tail(order), fetch)

(***************************************************************************)
(* The connection watcher.  A watcher state st is                          *)
(* [conn_info, current_keys, log].                                         *)
(***************************************************************************)
\* _addr_str: None for an empty address, "ip:port" for a pair
_addr_str(addr) == IF addr = <<>> THEN None ELSE <<addr[1], ":", addr[2]>>

\* _conn_key: family, type, local, remote, status, pid; the fd is not part of it
_conn_key(c) ==
    <<c.family, c.type, _addr_str(c.laddr), _addr_str(c.raddr), c.status, c.pid>>

\* the dict stored for a connection
conn_record(c) ==
    [status |-> c.status, pid |-> str(c.pid),
     laddr |-> _addr_str(c.laddr), raddr |-> _addr_str(c.raddr)]

\* the text of a connection line: info = self.conn_info.get(key, {}) and four .get
conn_msg(info_of, key) ==
    IF key \in DOMAIN info_of
    THEN <<Format(info_of[key].laddr), Format(info_of[key].raddr),
           info_of[key].status, info_of[key].pid>>
    ELSE <<NoneText, NoneText, "None", NoneText>>

\* _log_conn_start: write the line; the dict is left as it is
_log_conn_start(st, key) ==
    [st EXCEPT !.log = Append(@, Line("Connection Started", key,
                                      conn_msg(st.conn_info, key),
                                      key \in DOMAIN st.conn_info))]

\* _log_conn_end that pops the key before it reads the record
_log_conn_end_pop_first(st, key) ==
    [st EXCEPT !.log = Append(@, Line("Connection Ended", key,
                                      conn_msg(DictPop(st.conn_info, key), key),
                                      key \in DOMAIN st.conn_info)),
               !.conn_info = DictPop(@, key)]

\* _log_conn_end: write the line from the cached record, then pop
_log_conn_end(st, key) ==
    [st EXCEPT !.log = Append(@, Line("Connection Ended", key,
                                      conn_msg(st.conn_info, key),
                                      key \in DOMAIN st.conn_info)),
               !.conn_info = DictPop(@, key)]

\* the body of "for c in conns" in _poll_connections: add the key to
\* current_keys and store a record when the key is not in conn_info yet
scan_conn(st, c) ==
    [st EXCEPT !.current_keys = @ \cup {_conn_key(c)},
               !.conn_info = IF _conn_key(c) \in DOMAIN @ THEN @
                             ELSE DictSet(@, _conn_key(c), conn_record(c))]

\* for c in conns; the outcome does not depend on the order of the list
RECURSIVE scan_conns(_, _)
scan_conns(st, conns) ==
    IF conns = {} THEN st
    ELSE LET c == CHOOSE x \in conns : TRUE
         IN  scan_conns(scan_conn(st, c), conns \ {c})

\* logging.debug(f"Failed to list network connections: {e}") when the call raised
list_conns_log(result) ==
    IF result.ok THEN <<>>
    ELSE logging("DEBUG", Line("debug", None, <<"Failed to list network connections">>, FALSE))

\* previous_keys = set(self.conn_info.keys()), taken after the scan
previous_keys(st) == DOMAIN st.conn_info

\* created = current_keys - previous_keys
conn_created(current_keys, prev_keys) == current_keys \ prev_keys

\* ended that takes every tracked key
conn_ended_all(prev_keys, current_keys) == prev_keys

\* ended that never finds a key gone
conn_ended_none(prev_keys, current_keys) == {}

\* ended = previous_keys - current_keys
conn_ended(prev_keys, current_keys) == prev_keys \ current_keys

RECURSIVE log_conn_starts(_, _)
log_conn_starts(st, order) ==
    IF order = <<>> THEN st
    ELSE log_conn_starts(_log_conn_start(st, Head(order)), Tail(order))

RECURSIVE log_conn_ends(_, _)
log_conn_ends(st, order) ==
    IF order = <<>> THEN st
    ELSE log_conn_ends(_log_conn_end(st, Head(order)), Tail(order))

\* the body of "for c in conns" in _seed_connections: store the record
seed_conn(info_of, c) == DictSet(info_of, _conn_key(c), conn_record(c))

\* _seed_connections; a failed listing seeds nothing
RECURSIVE _seed_connections(_, _)
_seed_connections(info_of, conns) ==
    IF conns = {} THEN info_of
    ELSE LET c == CHOOSE x \in conns : TRUE
         IN  _seed_connections(seed_conn(info_of, c), conns \ {c})

\* the keys of a listing
keys_of(conns) == {_conn_key(c) : c \in conns}

(***************************************************************************)
(* The operations.                                                         *)
(***************************************************************************)
\* self.monitor_network = True
monitor_network == TRUE

\* the state a step starts from
snapshot ==
    [pid_info |-> pid_info, conn_info |-> conn_info, captured |-> captured,
     pids_result |-> pids_result, conns_result |-> conns_result,
     reported |-> reported]

\* the identities the lines of a kind are about
keys_with(lines, kind) ==
    {lines[i].key : i \in {j \in 1..Len(lines) : lines[j].kind = kind}}

\* no enumeration made yet in this loop iteration
new_cycle == [pids_calls |-> 0, conns_calls |-> 0]

\* a result of psutil, with the operation that asked for it
during(result, op) == [ok |-> result.ok, value |-> result.value, during |-> op]

\* a result of psutil.net_connections() as the keys of its connections
keyed(result) == [ok |-> result.ok, value |-> keys_of(result.value)]

\* the record the OS gave for the connection with key k of a listing
conn_detail(conns, k) == conn_record(CHOOSE c \in conns : _conn_key(c) = k)

\* the fields of a fresh object, before __init__ seeds them; audit tells
\* whether the record of the connections reported is kept
Fresh(audit) ==
    /\ pid_info = EmptyDict
    /\ conn_info = EmptyDict
    /\ running = FALSE
    /\ pc = "__init__"
    /\ log = <<>>
    /\ pids_result = [ok |-> TRUE, value |-> {}, during |-> "none"]
    /\ conns_result = [ok |-> TRUE, value |-> {}, during |-> "none"]
    /\ fetched = EmptyDict
    /\ captured = [pids |-> EmptyDict, conns |-> EmptyDict]
    /\ pre = [pid_info |-> EmptyDict, conn_info |-> EmptyDict,
              captured |-> [pids |-> EmptyDict, conns |-> EmptyDict],
              pids_result |-> [ok |-> TRUE, value |-> {}, during |-> "none"],
              conns_result |-> [ok |-> TRUE, value |-> {}, during |-> "none"],
              reported |-> [pids |-> {}, conns |-> {}, audit |-> audit]]
    /\ sigint = FALSE
    /\ cycle = new_cycle
    /\ reported = [pids |-> {}, conns |-> {}, audit |-> audit]

Init == Fresh(FALSE)

\* the same object, with the record of the connections reported kept
AuditInit == Fresh(TRUE)

\* __init__: seed pid_info from psutil.pids() and conn_info from
\* psutil.net_connections()
__init__ ==
    /\ pc = "__init__"
    /\ \E pr \in PidsResults, cr \in ConnsResults :
         \E fetch \in [current(pr) -> Details], order \in Orders(current(pr)) :
           LET st0 == [pid_info |-> EmptyDict, log |-> <<>>]
               st1 == seed_pids(st0, order, fetch)
               ci  == _seed_connections(EmptyDict, cr.value)
           IN  /\ pid_info' = st1.pid_info
               /\ conn_info' = ci
               /\ log' = st1.log
               /\ pids_result' = during(pr, "seed")
               /\ conns_result' = during(keyed(cr), "seed")
               /\ fetched' = fetch
               /\ captured' = [pids |-> [p \in DOMAIN st1.pid_info |-> fetch[p].name],
                               conns |-> [k \in DOMAIN ci |-> conn_detail(cr.value, k)]]
               /\ reported' = [reported EXCEPT
                                    !.pids = DOMAIN st1.pid_info,
                                    !.conns = IF reported.audit THEN DOMAIN ci ELSE @]
    /\ pre' = snapshot
    /\ running' = FALSE
    /\ pc' = "idle"
    /\ UNCHANGED <<sigint, cycle>>

\* start, up to the first test of "while self.running"
start ==
    /\ pc \in {"idle", "returned"}
    /\ running' = TRUE
    /\ log' = logging("INFO", Line("info", None, <<"ProcessMonitor started">>, FALSE))
                \o <<Line("stdout", None, <<"ProcessMonitor started. Press Ctrl+C to stop.">>, FALSE)>>
    /\ pc' = "_poll_once"
    /\ fetched' = EmptyDict
    /\ pre' = snapshot
    /\ cycle' = new_cycle
    /\ UNCHANGED <<pid_info, conn_info, pids_result, conns_result, captured, sigint, reported>>

\* _poll_once up to its test of monitor_network: the process watcher's poll
_poll_once ==
    /\ pc = "_poll_once"
    /\ ~sigint
    /\ \E pr \in PidsResults :
         LET cur      == current(pr)
             previous == DOMAIN pid_info
         IN  \E fetch \in [created(cur, previous) -> Details],
                so \in Orders(created(cur, previous)),
                eo \in Orders(ended(previous, cur)) :
               LET st0 == [pid_info |-> pid_info, log |-> list_pids_log(pr)]
                   st1 == log_starts(st0, so, fetch)
                   st2 == log_ends(st1, eo)
               IN  /\ pid_info' = st2.pid_info
                   /\ log' = st2.log
                   /\ pids_result' = during(pr, "poll")
                   /\ fetched' = fetch
                   /\ captured' =
                        [captured EXCEPT !.pids =
                            [p \in DOMAIN st2.pid_info |->
                                IF p \in DOMAIN fetch /\ fetch[p].kind = "ok"
                                THEN fetch[p].name ELSE captured.pids[p]]]
                   /\ reported' =
                        [reported EXCEPT !.pids =
                            (@ \cup {k[1] : k \in keys_with(st2.log, "Process Started")})
                                \ {k[1] : k \in keys_with(st2.log, "Process Ended")}]
    /\ pre' = snapshot
    /\ pc' = "monitor_network"
    /\ cycle' = [cycle EXCEPT !.pids_calls = @ + 1]
    /\ UNCHANGED <<conn_info, running, conns_result, sigint>>

\* _poll_once of the process-only monitor: the lines it writes and the
\* pid_info it leaves, for a listing, the fetches and the two loop orders
main_poll_once(info_of, result, fetch, so, eo) ==
    log_ends(log_starts([pid_info |-> info_of, log |-> list_pids_log(result)], so, fetch), eo)

\* an end of _poll_once that never calls the connection watcher
call_poll_connections_never ==
    /\ pc = "monitor_network"
    /\ ~sigint
    /\ pc' = "sleep"
    /\ log' = <<>>
    /\ fetched' = EmptyDict
    /\ pre' = snapshot
    /\ UNCHANGED <<pid_info, conn_info, running, pids_result, conns_result, captured,
                   sigint, cycle, reported>>

\* an end of _poll_once that forgets the processes when it calls the
\* connection watcher
call_poll_connections_forgets ==
    /\ pc = "monitor_network"
    /\ ~sigint
    /\ pc' = IF monitor_network THEN "_poll_connections" ELSE "sleep"
    /\ pid_info' = EmptyDict
    /\ log' = <<>>
    /\ fetched' = EmptyDict
    /\ pre' = snapshot
    /\ UNCHANGED <<conn_info, running, pids_result, conns_result, captured,
                   sigint, cycle, reported>>

\* the end of _poll_once: "if getattr(self, 'monitor_network', False)" and the
\* call of _poll_connections
call_poll_connections ==
    /\ pc = "monitor_network"
    /\ ~sigint
    /\ pc' = IF monitor_network THEN "_poll_connections" ELSE "sleep"
    /\ log' = <<>>
    /\ fetched' = EmptyDict
    /\ pre' = snapshot
    /\ UNCHANGED <<pid_info, conn_info, running, pids_result, conns_result, captured,
                   sigint, cycle, reported>>

\* _poll_connections: the connection watcher's poll
_poll_connections ==
    /\ pc = "_poll_connections"
    /\ ~sigint
    /\ \E cr \in ConnsResults :
         LET st0 == [conn_info |-> conn_info, current_keys |-> {},
                     log |-> list_conns_log(cr)]
             st1 == scan_conns(st0, cr.value)
             prev_keys == previous_keys(st1)
         IN  \E so \in Orders(conn_created(st1.current_keys, prev_keys)),
                eo \in Orders(conn_ended(prev_keys, st1.current_keys)) :
               LET st2 == log_conn_starts(st1, so)
                   st3 == log_conn_ends(st2, eo)
               IN  /\ conn_info' = st3.conn_info
                   /\ log' = st3.log
                   /\ conns_result' = during(keyed(cr), "poll")
                   /\ captured' =
                        [captured EXCEPT !.conns =
                            [k \in DOMAIN st3.conn_info |->
                                IF k \in DOMAIN captured.conns
                                THEN captured.conns[k] ELSE conn_detail(cr.value, k)]]
                   /\ reported' =
                        [reported EXCEPT !.conns =
                            IF reported.audit
                            THEN (@ \cup keys_with(st3.log, "Connection Started"))
                                     \ keys_with(st3.log, "Connection Ended")
                            ELSE @]
    /\ fetched' = EmptyDict
    /\ pre' = snapshot
    /\ pc' = "sleep"
    /\ cycle' = [cycle EXCEPT !.conns_calls = @ + 1]
    /\ UNCHANGED <<pid_info, running, pids_result, sigint>>

\* time.sleep(self.interval) returns and "while self.running" is tested again
sleep ==
    /\ pc = "sleep"
    /\ ~sigint
    /\ pc' = IF running THEN "_poll_once" ELSE "returned"
    /\ log' = <<>>
    /\ fetched' = EmptyDict
    /\ pre' = snapshot
    /\ cycle' = IF running THEN new_cycle ELSE cycle
    /\ UNCHANGED <<pid_info, conn_info, running, pids_result, conns_result, captured,
                   sigint, reported>>

\* stop that clears the flag and writes no notice
stop_silent(st) == [st EXCEPT !.running = FALSE]

\* stop: clear the flag and write the notice, when the monitor is running
stop(st) ==
    IF st.running
    THEN [running |-> FALSE,
          log |-> st.log \o <<Line("stdout", None, <<"Stopping ProcessMonitor...">>, FALSE)>>
                         \o logging("INFO", Line("info", None, <<"ProcessMonitor stopped by user">>, FALSE))]
    ELSE st

\* a call of stop() by the code that holds the monitor, outside start(): the
\* notice joins the lines written last, and nothing else is touched
call_stop ==
    /\ pc \in {"idle", "returned"}
    /\ LET st1 == stop([running |-> running, log |-> log])
       IN  /\ running' = st1.running
           /\ log' = st1.log
    /\ UNCHANGED <<pid_info, conn_info, pc, pids_result, conns_result, fetched,
                   captured, pre, sigint, cycle, reported>>

\* the OS delivers SIGINT while start runs its loop
SIGINT ==
    /\ pc \in {"_poll_once", "monitor_network", "_poll_connections", "sleep"}
    /\ ~sigint
    /\ sigint' = TRUE
    /\ log' = <<>>
    /\ fetched' = EmptyDict
    /\ pre' = snapshot
    /\ UNCHANGED <<pid_info, conn_info, running, pc, pids_result, conns_result,
                   captured, cycle, reported>>

\* the handler of SIGINT raises KeyboardInterrupt before the loop runs any
\* further; no "except Exception" of the loop catches it; start logs and calls stop
KeyboardInterrupt ==
    /\ sigint
    /\ LET st0 == [running |-> running,
                   log |-> logging("INFO", Line("info", None,
                              <<"ProcessMonitor stopping due to KeyboardInterrupt">>, FALSE))]
           st1 == stop(st0)
       IN  /\ running' = st1.running
           /\ log' = st1.log
    /\ pc' = "returned"
    /\ sigint' = FALSE
    /\ fetched' = EmptyDict
    /\ pre' = snapshot
    /\ UNCHANGED <<pid_info, conn_info, pids_result, conns_result, captured,
                   cycle, reported>>

Next ==
    \/ __init__
    \/ start
    \/ _poll_once
    \/ call_poll_connections
    \/ _poll_connections
    \/ sleep
    \/ call_stop
    \/ SIGINT
    \/ KeyboardInterrupt

Spec == Init /\ [][Next]_vars

\* the thread keeps running: a delivered SIGINT gets its handler run
FairSpec == Spec /\ WF_vars(KeyboardInterrupt)

\* the monitor with the record of the connections reported kept
AuditSpec == AuditInit /\ [][Next]_vars

(***************************************************************************)
(* Properties.                                                             *)
(***************************************************************************)
LifecycleKinds ==
    {"Process Started", "Process Ended", "Connection Started", "Connection Ended"}

\* the number of lines of a kind about an identity in the log of the last step
Count(kind, key) ==
    Cardinality({i \in 1..Len(log) : log[i].kind = kind /\ log[i].key = key})

\* the last step wrote no lifecycle line
NoLifecycleLine == \A i \in 1..Len(log) : log[i].kind \notin LifecycleKinds

\* the last step wrote no lifecycle line about the identity
NoLineAbout(key) ==
    \A i \in 1..Len(log) : log[i].kind \in LifecycleKinds => log[i].key # key

\* the process watcher has just polled; the connection watcher has just polled
AfterProcessPoll == pc = "monitor_network" /\ ~sigint
AfterConnectionPoll == pc = "sleep" /\ ~sigint

\* the keys the last listing of connections holds
current_keys == conns_result.value

\* the name a "Process Ended" text carries; a text without a name carries the empty one
NamePart(msg) == IF Len(msg) = 2 THEN msg[2] ELSE ""

\* C1: constructing the monitor writes no lifecycle line, whatever the OS
\* lists, also when a pid vanishes during seeding or a listing fails.
SeedingSilence == pc = "idle" => NoLifecycleLine

\* C1 witness: a monitor seeded with processes and connections, one listed pid
\* having vanished before its name was read.
SeedingSilenceWitness ==
    /\ pc = "idle"
    /\ pid_info # EmptyDict
    /\ conn_info # EmptyDict
    /\ \E p \in pids_result.value :
         p \notin DOMAIN pid_info /\ fetched[p].kind = "NoSuchProcess"

\* C2 as claimed: after a poll of the connection watcher, every key of the
\* listing that was not in conn_info before has exactly one "Connection
\* Started" line and is in conn_info.
ConnStartReported ==
    AfterConnectionPoll =>
        \A k \in current_keys \ DOMAIN pre.conn_info :
            Count("Connection Started", k) = 1 /\ k \in DOMAIN conn_info

\* C3: after a poll of the process watcher, every listed pid that was not in
\* pid_info before and whose detail fetch succeeded has exactly one "Process
\* Started" line and is in pid_info with the fetched name.
ProcStartReported ==
    AfterProcessPoll =>
        \A p \in current(pids_result) \ DOMAIN pre.pid_info :
            (p \in DOMAIN fetched /\ fetched[p].kind = "ok") =>
                /\ Count("Process Started", <<p>>) = 1
                /\ p \in DOMAIN pid_info
                /\ pid_info[p] = fetched[p].name

\* C3 witness: a poll that found a new pid named "beta" and reported it.
ProcStartReportedWitness ==
    /\ AfterProcessPoll
    /\ \E p \in current(pids_result) \ DOMAIN pre.pid_info :
         /\ fetched[p].kind = "ok" /\ fetched[p].name = "beta"
         /\ Count("Process Started", <<p>>) = 1
         /\ pid_info[p] = "beta"

\* C4: after a poll of either watcher, every identity that was tracked before
\* the poll and is not in the listing has exactly one "ended" line and is not
\* tracked any more.
EndReported ==
    /\ AfterProcessPoll =>
         \A p \in DOMAIN pre.pid_info \ current(pids_result) :
             Count("Process Ended", <<p>>) = 1 /\ p \notin DOMAIN pid_info
    /\ AfterConnectionPoll =>
         \A k \in DOMAIN pre.conn_info \ current_keys :
             Count("Connection Ended", k) = 1 /\ k \notin DOMAIN conn_info

\* C4 witness: a poll in which one tracked pid was gone and another stayed.
EndReportedWitness ==
    /\ AfterProcessPoll
    /\ pids_result.ok
    /\ \E p, q \in DOMAIN pre.pid_info :
         /\ p \notin pids_result.value /\ q \in pids_result.value
         /\ Count("Process Ended", <<p>>) = 1
         /\ p \notin DOMAIN pid_info

\* C5 as claimed: after a poll, the keys of the watcher's dict are the
\* identities of the listing of that poll.
StateEqualsSnapshot ==
    /\ AfterProcessPoll => DOMAIN pid_info = current(pids_result)
    /\ AfterConnectionPoll => DOMAIN conn_info = current_keys

\* C5 amended: after a poll of the process watcher the keys of pid_info are the
\* listed pids but the newly seen ones whose detail fetch failed in that poll;
\* after a poll of the connection watcher the keys of conn_info are the keys
\* of the listing.
StateEqualsFetchedSnapshot ==
    /\ AfterProcessPoll =>
         DOMAIN pid_info =
            current(pids_result) \ {p \in DOMAIN fetched : fetched[p].kind # "ok"}
    /\ AfterConnectionPoll => DOMAIN conn_info = current_keys

\* C5 witness: a poll that listed a new pid whose detail fetch failed next to a
\* pid it tracks.
StateEqualsFetchedSnapshotWitness ==
    /\ AfterProcessPoll
    /\ \E p, q \in current(pids_result) :
         /\ p \in DOMAIN fetched /\ fetched[p].kind # "ok" /\ p \notin DOMAIN pid_info
         /\ q \in DOMAIN pid_info

\* a poll after a poll whose listing failed
AfterFailedProcessPoll ==
    AfterProcessPoll /\ pre.pids_result.during = "poll" /\ ~pre.pids_result.ok
AfterFailedConnectionPoll ==
    AfterConnectionPoll /\ pre.conns_result.during = "poll" /\ ~pre.conns_result.ok

\* C6 as claimed: a poll whose listing fails reports every tracked identity
\* ended and empties the dict, and the next poll, when its listing succeeds,
\* reports every listed identity started (for a pid: when its detail fetch
\* succeeds); for both watchers.
DegradeToEmpty ==
    /\ (AfterProcessPoll /\ ~pids_result.ok) =>
         /\ \A p \in DOMAIN pre.pid_info : Count("Process Ended", <<p>>) = 1
         /\ pid_info = EmptyDict
    /\ (AfterFailedProcessPoll /\ pids_result.ok) =>
         \A p \in pids_result.value :
             fetched[p].kind = "ok" => Count("Process Started", <<p>>) = 1
    /\ (AfterConnectionPoll /\ ~conns_result.ok) =>
         /\ \A k \in DOMAIN pre.conn_info : Count("Connection Ended", k) = 1
         /\ conn_info = EmptyDict
    /\ (AfterFailedConnectionPoll /\ conns_result.ok) =>
         \A k \in current_keys : Count("Connection Started", k) = 1

NoPhantomEvents ==
    /\ AfterProcessPoll =>
         \A p \in DOMAIN pre.pid_info \cap current(pids_result) :
             /\ NoLineAbout(<<p>>)
             /\ p \in DOMAIN pid_info
             /\ pid_info[p] = pre.pid_info[p]
    /\ AfterConnectionPoll =>
         \A k \in DOMAIN pre.conn_info \cap current_keys :
             /\ NoLineAbout(k)
             /\ k \in DOMAIN conn_info
             /\ conn_info[k] = pre.conn_info[k]

\* C8 witness: a poll of the connection watcher in which one tracked key
\* stayed while another one went away.
NoPhantomEventsWitness ==
    /\ AfterConnectionPoll
    /\ \E k, j \in DOMAIN pre.conn_info :
         /\ k \in current_keys /\ j \notin current_keys
         /\ k \in DOMAIN conn_info
         /\ Count("Connection Ended", j) = 1

EndDetailRetention ==
    \A i \in 1..Len(log) :
        /\ log[i].kind = "Process Ended" =>
             /\ log[i].key[1] \in DOMAIN pre.captured.pids
             /\ log[i].msg[1] = log[i].key[1]
             /\ NamePart(log[i].msg) = pre.captured.pids[log[i].key[1]]
        /\ log[i].kind = "Connection Ended" =>
             /\ log[i].key \in DOMAIN pre.captured.conns
             /\ log[i].msg =
                  << Format(pre.captured.conns[log[i].key].laddr),
                     Format(pre.captured.conns[log[i].key].raddr),
                     pre.captured.conns[log[i].key].status,
                     pre.captured.conns[log[i].key].pid >>

\* C10 witness: the ESTABLISHED connection is reported ended, with its own
\* status, by the poll that lists it as CLOSE_WAIT.
EndDetailRetentionWitness ==
    /\ AfterConnectionPoll
    /\ _conn_key(ConnTable[2]) \in current_keys
    /\ \E i \in 1..Len(log) :
         /\ log[i].kind = "Connection Ended"
         /\ log[i].key = _conn_key(ConnTable[1])
         /\ log[i].msg[3] = "ESTABLISHED"

\* C11 as claimed: a SIGINT that arrives while a poll cycle is in progress
\* does not cut the cycle short: when start has returned, the connection
\* watcher has polled as often in the last cycle as the process watcher.
CooperativeCancellation ==
    pc = "returned" => cycle.conns_calls = cycle.pids_calls

\* the number of lines of a kind with a text in the log of the last step
CountText(kind, text) ==
    Cardinality({i \in 1..Len(log) : log[i].kind = kind /\ log[i].msg = <<text>>})

\* the shutdown notice was printed once and logged once by the last step
NoticeOnce ==
    /\ CountText("stdout", "Stopping ProcessMonitor...") = 1
    /\ CountText("info", "ProcessMonitor stopped by user") = 1

\* the step that follows the delivery of SIGINT ends the loop: the flag is
\* cleared, start returns, the notice is written once, and neither watcher polls
OrderlyStopStep ==
    sigint =>
        /\ ~running' /\ pc' = "returned" /\ ~sigint'
        /\ NoticeOnce'
        /\ cycle' = cycle
        /\ pid_info' = pid_info /\ conn_info' = conn_info

EnumerationDiagnostics ==
    Cardinality({i \in 1..Len(log) : log[i].kind = "error" /\ log[i].key = None})

\* C13 as claimed: a poll whose listing fails writes exactly one error-level
\* line about it, for the process list and for the connection list.
EnumerationFailureDiagnostic ==
    /\ (AfterProcessPoll /\ ~pids_result.ok) => EnumerationDiagnostics = 1
    /\ (AfterConnectionPoll /\ ~conns_result.ok) => EnumerationDiagnostics = 1

\* C13: a poll whose listing of the processes fails writes exactly one
\* error-level line about it; a poll whose listing of the connections fails
\* writes no diagnostic line at all (the record is of level DEBUG, below the
\* configured INFO).
ProcessEnumerationFailureDiagnostic ==
    /\ (AfterProcessPoll /\ ~pids_result.ok) => EnumerationDiagnostics = 1
    /\ (AfterConnectionPoll /\ ~conns_result.ok) =>
         \A i \in 1..Len(log) : log[i].kind \notin {"error", "debug"}

\* C13 witness: a cycle in which both listings failed, the connection
\* watcher's poll just done.
ProcessEnumerationFailureDiagnosticWitness ==
    /\ AfterConnectionPoll /\ ~conns_result.ok
    /\ pids_result.during = "poll" /\ ~pids_result.ok

created_pids == current(pids_result) \ DOMAIN pre.pid_info
ended_pids == DOMAIN pre.pid_info \ current(pids_result)

\* the last process poll met a failure: of the listing, or of a fetch
ProcessSideFailure ==
    \/ ~pids_result.ok
    \/ \E p \in DOMAIN fetched : fetched[p].kind # "ok"

\* C15: a failed fetch or a failed listing stays inside the poll: after a
\* process poll that met one, every other new pid whose fetch succeeded is
\* reported started and tracked, every pid gone is reported ended and dropped,
\* the monitor is running and stands before the connection poll of the cycle;
\* after a connection poll whose listing failed, or that followed a failed
\* process listing, every tracked connection gone is reported ended and the
\* monitor is running and stands before the sleep that precedes the next cycle.
LocalRecovery ==
    /\ (AfterProcessPoll /\ ProcessSideFailure) =>
         /\ \A p \in created_pids :
              fetched[p].kind = "ok" =>
                  Count("Process Started", <<p>>) = 1 /\ p \in DOMAIN pid_info
         /\ \A p \in ended_pids :
              Count("Process Ended", <<p>>) = 1 /\ p \notin DOMAIN pid_info
         /\ running
         /\ cycle = [pids_calls |-> 1, conns_calls |-> 0]
    /\ (AfterConnectionPoll /\ (~conns_result.ok \/ ~pids_result.ok)) =>
         /\ \A k \in DOMAIN pre.conn_info \ current_keys :
              Count("Connection Ended", k) = 1 /\ k \notin DOMAIN conn_info
         /\ running
         /\ cycle = [pids_calls |-> 1, conns_calls |-> 1]

\* C15 witness: a process poll in which the fetch for one new pid raised an
\* exception other than NoSuchProcess and the other new pid was reported.
LocalRecoveryWitness ==
    /\ AfterProcessPoll
    /\ \E p, q \in created_pids :
         /\ fetched[p].kind = "Exception"
         /\ fetched[q].kind = "ok"
         /\ Count("Process Started", <<q>>) = 1

\* C16: only the process watcher's poll changes pid_info and only the
\* connection watcher's poll changes conn_info (construction seeds both); and
\* the lines and the pid_info of a process poll are those of the process-only
\* monitor's poll on the same pid_info, listing and fetches, whatever the
\* connections are.
WatcherIsolation ==
    /\ pc \notin {"idle", "monitor_network"} => pid_info = pre.pid_info
    /\ pc \notin {"idle", "sleep"} => conn_info = pre.conn_info
    /\ AfterProcessPoll =>
         \E so \in Orders(created_pids), eo \in Orders(ended_pids) :
            LET st == main_poll_once(pre.pid_info, pids_result, fetched, so, eo)
            IN  st.pid_info = pid_info /\ st.log = log

\* C16 witness: the connection watcher's poll failed to list and reported a
\* connection ended, with processes tracked.
WatcherIsolationWitness ==
    /\ AfterConnectionPoll /\ ~conns_result.ok
    /\ pid_info # EmptyDict
    /\ \E i \in 1..Len(log) : log[i].kind = "Connection Ended"

\* C17: in a cycle the process watcher polls first and the connection
\* watcher after it, each listing once: process lines are written before the
\* connection listing of the cycle, connection lines after the process poll;
\* and a poll takes its started and its ended identities from its one
\* listing: the started are listed, the ended are not.
CycleSequencing ==
    /\ pc = "_poll_once" => cycle = [pids_calls |-> 0, conns_calls |-> 0]
    /\ pc \in {"monitor_network", "_poll_connections"} =>
         cycle = [pids_calls |-> 1, conns_calls |-> 0]
    /\ pc = "sleep" => cycle = [pids_calls |-> 1, conns_calls |-> 1]
    /\ \A i \in 1..Len(log) :
         /\ log[i].kind \in {"Process Started", "Process Ended"} =>
              cycle = [pids_calls |-> 1, conns_calls |-> 0]
         /\ log[i].kind \in {"Connection Started", "Connection Ended"} =>
              cycle = [pids_calls |-> 1, conns_calls |-> 1]
         /\ log[i].kind = "Process Started" => log[i].key[1] \in current(pids_result)
         /\ log[i].kind = "Process Ended" => log[i].key[1] \notin current(pids_result)
         /\ log[i].kind = "Connection Started" => log[i].key \in current_keys
         /\ log[i].kind = "Connection Ended" => log[i].key \notin current_keys

\* C17 witness: the connection poll of a cycle reported a connection ended
\* after the process poll of the cycle had listed a pid.
CycleSequencingWitness ==
    /\ AfterConnectionPoll
    /\ pids_result.during = "poll" /\ current(pids_result) # {}
    /\ \E i \in 1..Len(log) : log[i].kind = "Connection Ended"

\* C18 as claimed: once start has returned with the monitor stopped, the
\* monitor is never running again and the loop never runs again, whatever
\* start() and stop() calls follow.
StoppedIsTerminal ==
    [][(pc = "returned" /\ ~running) => (pc' = "returned" /\ ~running')]_vars

\* C19 as claimed: an "ended" line is about an identity that was seeded or
\* reported started and has not been reported ended since, and a step
\* reports an identity ended at most once; for pids and for connections
\* (read where the record of the connections reported is kept).
EventAlternation ==
    \A i \in 1..Len(log) :
        /\ log[i].kind = "Process Ended" =>
             /\ log[i].key[1] \in pre.reported.pids
             /\ Count("Process Ended", log[i].key) = 1
        /\ log[i].kind = "Connection Ended" =>
             /\ log[i].key \in pre.reported.conns
             /\ Count("Connection Ended", log[i].key) = 1

\* C20: a new pid whose fetch fails in _log_start is not inserted and gets no
\* lifecycle line; every listed pid that is not tracked, one whose fetch
\* failed before included, is fetched again as created; and a "Process Ended"
\* line is only written for a pid that was tracked, so none for a pid that
\* went away before a fetch succeeded.
FailedStartLeavesNoTrace ==
    AfterProcessPoll =>
        /\ DOMAIN fetched = created_pids
        /\ \A p \in created_pids :
             fetched[p].kind # "ok" =>
                 p \notin DOMAIN pid_info /\ NoLineAbout(<<p>>)
        /\ \A p \in Pids :
             p \notin DOMAIN pre.pid_info => Count("Process Ended", <<p>>) = 0

\* C20 witness: a pid that was listed and left untracked by the poll before
\* is fetched again, and the fetch fails again.
FailedStartLeavesNoTraceWitness ==
    /\ AfterProcessPoll
    /\ pre.pids_result.during = "poll"
    /\ \E p \in created_pids :
         /\ p \in current(pre.pids_result)
         /\ fetched[p].kind # "ok"
         /\ p \notin DOMAIN pid_info
====
